---- MODULE Spec2Model ----
(***************************************************************************)
(* A model of sphinx_kroki (src/sphinx_kroki/sphinx_kroki.py): the Kroki   *)
(* directive (Kroki.run), the content-addressed render cache               *)
(* (render_kroki) and the HTML embedder (render_html).                     *)
(*                                                                         *)
(* A Python str is a sequence of pieces.  A piece is either one special    *)
(* character (" ", "\n", ".", "/", "<", ">", "&") or a maximal run of      *)
(* ordinary characters, so that strip, join, splitext and the HTML         *)
(* escaping act on a text as they act on the characters of the str.        *)
(***************************************************************************)
EXTENDS Naturals, Sequences, FiniteSets, TLC

(***************************************************************************)
(* State                                                                   *)
(***************************************************************************)
VARIABLES
    active,     \* the builds that run
    pc,         \* pc[b]: where build b is
    config,     \* config[b]: the configuration of build b
    directive,  \* directive[b]: the directive being processed
    ran,        \* ran[b]: what Kroki.run left for it
    call,       \* call[b]: the locals of render_html and render_kroki
    body,       \* body[b]: what the current visit appended to the body
    log,        \* log[b]: the warnings the current visit logged
    outcome,    \* outcome[b]: the exception that ended the visit
    http,       \* http[b]: the POST requests the current visit issued
    files,      \* the cache directory: path -> data, writing call, chunks left
    served,     \* the requests for which render_kroki has returned paths
    failed,     \* the requests for which a call got no diagram from the service
    made,       \* whether the image directory of the output directory exists
    ncalls      \* render_kroki calls started

vars == <<active, pc, config, directive, ran, call, body, log, outcome, http,
          files, served, failed, made, ncalls>>

\* Python's None, kept apart from every str (the empty str is <<>>).
None == <<"<None>">>

(***************************************************************************)
(* str operations                                                          *)
(***************************************************************************)
Whitespace == {" ", "\n", "\t"}

RECURSIVE LStrip(_)
LStrip(s) ==
    IF s = <<>> THEN s
    ELSE IF Head(s) \in Whitespace THEN LStrip(Tail(s)) ELSE s

RECURSIVE RStrip(_)
RStrip(s) ==
    IF s = <<>> THEN s
    ELSE IF s[Len(s)] \in Whitespace THEN RStrip(SubSeq(s, 1, Len(s) - 1)) ELSE s

\* str.strip()
Strip(s) == RStrip(LStrip(s))

\* "\n".join(lines)
RECURSIVE Join(_)
Join(lines) ==
    IF lines = <<>> THEN <<>>
    ELSE IF Len(lines) = 1 THEN lines[1]
    ELSE lines[1] \o <<"\n">> \o Join(Tail(lines))

\* str.rfind(c), as a position 1..Len(s), 0 when c does not occur
RFind(s, c) ==
    LET at == {i \in 1..Len(s) : s[i] = c}
    IN  IF at = {} THEN 0 ELSE CHOOSE i \in at : \A j \in at : j <= i

\* os.path.splitext(p)[1]: the extension starts at the last dot of the last
\* path component, unless only dots precede it in that component.
SplitextExt(p) ==
    LET sepIndex == RFind(p, "/")
        dotIndex == RFind(p, ".")
    IN  IF dotIndex > sepIndex
           /\ \E i \in (sepIndex + 1)..(dotIndex - 1) : p[i] # "."
        THEN SubSeq(p, dotIndex, Len(p))
        ELSE <<>>

\* os.path.splitext(p)[0]
SplitextRoot(p) == SubSeq(p, 1, Len(p) - Len(SplitextExt(p)))

\* str.lower() on the pieces the model uses
Lower(s) ==
    [i \in 1..Len(s) |->
        CASE s[i] = "Mermaid" -> "mermaid"
          [] s[i] = "PNG" -> "png"
          [] OTHER -> s[i]]

(***************************************************************************)
(* Module tables                                                           *)
(***************************************************************************)
formats == {<<"png">>, <<"svg">>, <<"jpeg">>, <<"base64">>, <<"txt">>, <<"utxt">>}

types ==
    {<<"blockdiag">>, <<"bpmn">>, <<"bytefield">>, <<"seqdiag">>,
     <<"actdiag">>, <<"nwdiag">>, <<"packetdiag">>, <<"rackdiag">>,
     <<"c4plantuml">>, <<"ditaa">>, <<"erd">>, <<"graphviz">>, <<"mermaid">>,
     <<"nomnoml">>, <<"plantuml">>, <<"svgbob">>, <<"vega">>, <<"vegalite">>,
     <<"wavedrom">>}

\* extension_type_map.get(ext): None for an extension without an entry
extension_type_map(ext) ==
    CASE ext = <<".", "puml">> -> <<"plantuml">>
      [] ext = <<".", "dot">> -> <<"graphviz">>
      [] ext = <<".", "gv">> -> <<"graphviz">>
      [] ext = <<".", "bpmn">> -> <<"bpmn">>
      [] ext = <<".", "ditaa">> -> <<"ditaa">>
      [] ext = <<".", "bob">> -> <<"svgbob">>
      [] OTHER -> None

\* directives.choice(argument, values): the lowered, stripped argument when it
\* is one of the values, and a ValueError otherwise
Choice(argument, values) ==
    LET value == Strip(Lower(argument))
    IN  IF value \in values THEN [ok |-> TRUE, value |-> value]
        ELSE [ok |-> FALSE, value |-> None]

type_spec(argument) == Choice(argument, types)

format_spec(argument) == Choice(argument, formats)

optional_arguments == 3

(***************************************************************************)
(* The source tree the directive reads from.  Every file is given by its   *)
(* name relative to the source directory; a name without an entry does not *)
(* exist.  latin1.bob holds bytes that are not UTF-8.                      *)
(***************************************************************************)
srcdir == <<"/", "proj", ".", "d">>

language == <<"en">>

SourceTree ==
    (<<"a", ".", "puml">> :> [read |-> "ok", text |-> <<"A-", ">", "B">>])
    @@ (<<"b", ".", "xyz">> :> [read |-> "ok", text |-> <<"x">>])
    @@ (<<"b", ".", "en", ".", "xyz">> :> [read |-> "ok", text |-> <<"y">>])
    @@ (<<"blank", ".", "dot">> :> [read |-> "ok", text |-> <<" ", "\n">>])
    @@ (<<"latin1", ".", "bob">> :> [read |-> "UnicodeDecodeError", text |-> <<>>])
    @@ (<<"README">> :> [read |-> "ok", text |-> <<"r">>])

\* BuildEnvironment.relfn2path(filename) for a document in the top directory:
\* the name relative to the source directory and the absolute path
relfn2path(filename) ==
    LET rel_fn == IF filename # <<>> /\ Head(filename) = "/" THEN Tail(filename)
                  ELSE filename
    IN  <<rel_fn, srcdir \o <<"/">> \o rel_fn>>

\* the name under the source directory that an absolute path denotes
Under(abspath) == SubSeq(abspath, Len(srcdir) + 2, Len(abspath))

\* path.exists(abspath)
Exists(abspath) == Under(abspath) \in DOMAIN SourceTree

\* search_image_for_language(filename, env): the translated name
\* <root>.<language><ext> when that file exists, the name itself otherwise
search_image_for_language(filename) ==
    LET translated == SplitextRoot(filename) \o <<".">> \o language
                          \o SplitextExt(filename)
    IN  IF Exists(relfn2path(translated)[2]) THEN translated ELSE filename

\* open(filename, encoding="utf-8") and fp.read(): the text, an OSError (no
\* such file, or a directory), or a UnicodeDecodeError (a ValueError)
ReadSource(abspath) ==
    IF Exists(abspath) THEN SourceTree[Under(abspath)]
    ELSE [read |-> "OSError", text |-> <<>>]

(***************************************************************************)
(* Kroki.run                                                               *)
(***************************************************************************)
docname == <<"index">>

\* a variant of ClassifyArguments in which the first argument of a kind stays
RECURSIVE ClassifyArgumentsFirstWins(_, _)
ClassifyArgumentsFirstWins(arguments, acc) ==
    IF arguments = <<>> THEN acc
    ELSE LET argument == Head(arguments)
         IN  ClassifyArgumentsFirstWins(Tail(arguments),
                 IF argument \in types
                 THEN IF acc.diagram_type = None
                      THEN [acc EXCEPT !.diagram_type = argument] ELSE acc
                 ELSE IF argument \in formats
                      THEN IF acc.output_format = None
                           THEN [acc EXCEPT !.output_format = argument] ELSE acc
                      ELSE IF acc.filename = None
                           THEN [acc EXCEPT !.filename = argument] ELSE acc)

\* the loop over self.arguments: each argument is a type, else a format, else
\* a filename, and a later argument of a kind replaces an earlier one
RECURSIVE ClassifyArguments(_, _)
ClassifyArguments(arguments, acc) ==
    IF arguments = <<>> THEN acc
    ELSE LET argument == Head(arguments)
         IN  ClassifyArguments(Tail(arguments),
                 IF argument \in types THEN [acc EXCEPT !.diagram_type = argument]
                 ELSE IF argument \in formats
                      THEN [acc EXCEPT !.output_format = argument]
                      ELSE [acc EXCEPT !.filename = argument])

\* document.reporter.warning(message)
Warning(message) == [kind |-> "warning", message |-> message, node |-> None]

\* the kroki node Kroki.run builds; it has a 'format' key only when a format
\* was given.  (The align and class options only decorate the node.)
KrokiNode(diagram_type, output_format, source) ==
    [type |-> diagram_type, code |-> source, options |-> [docname |-> docname]]
    @@ (IF output_format # None THEN [format |-> output_format] ELSE <<>>)

\* what one call of run leaves: the returned node list (one entry) or the
\* exception raised, the locals at that point and the dependencies noted
Returned(ret, filename, diagram_type, output_format, source, noted) ==
    [ret |-> ret, filename |-> filename, diagram_type |-> diagram_type,
     output_format |-> output_format, source |-> source, noted |-> noted]

\* lines 137-162: rule 7 and the node
RunFormat(options, filename, diagram_type, output_format0, source, noted) ==
    IF "format" \in DOMAIN options /\ output_format0 # None
    THEN Returned(Warning("both format option and a format argument"),
                  filename, diagram_type, output_format0, source, noted)
    ELSE LET output_format == IF "format" \in DOMAIN options
                              THEN options["format"] ELSE output_format0
             node == KrokiNode(diagram_type, output_format, source)
         IN  Returned(IF "caption" \notin DOMAIN options
                      THEN [kind |-> "kroki", message |-> None, node |-> node]
                      ELSE [kind |-> "figure", message |-> None, node |-> node],
                      filename, diagram_type, output_format, source, noted)

\* a variant of InferType that lets the extension override an explicit type
InferTypeExtensionFirst(diagram_type, filename) ==
    IF filename # None THEN extension_type_map(SplitextExt(filename))
    ELSE diagram_type

\* lines 128-130: without an explicit type, the type the extension of the
\* file read gives
InferType(diagram_type, filename) ==
    IF diagram_type = None /\ filename # None
    THEN extension_type_map(SplitextExt(filename))
    ELSE diagram_type

\* lines 121-135: rules 5 and 6
RunType(options, filename, diagram_type0, output_format, source, noted) ==
    IF "type" \in DOMAIN options /\ diagram_type0 # None
    THEN Returned(Warning("both type option and a type argument"),
                  filename, diagram_type0, output_format, source, noted)
    ELSE LET diagram_type1 == IF "type" \in DOMAIN options
                              THEN options["type"] ELSE diagram_type0
             diagram_type == InferType(diagram_type1, filename)
         IN  IF diagram_type = None
             THEN Returned(Warning("has to define diagram type"),
                           filename, diagram_type, output_format, source, noted)
             ELSE RunFormat(options, filename, diagram_type, output_format,
                            source, noted)

\* lines 115-119: rule 4
RunContent(options, filename, diagram_type, output_format, source, noted) ==
    IF Strip(source) = <<>>
    THEN Returned(Warning("directive without content"),
                  filename, diagram_type, output_format, source, noted)
    ELSE RunType(options, filename, diagram_type, output_format, source, noted)

\* a variant of RunFile that notes the dependency only once the file is read
RunFileNotesAfterRead(options, filename0, diagram_type, output_format, source0) ==
    IF filename0 = None
    THEN RunContent(options, filename0, diagram_type, output_format, source0, {})
    ELSE LET argument == search_image_for_language(filename0)
             rel_filename == relfn2path(argument)[1]
             filename == relfn2path(argument)[2]
             fp == ReadSource(filename)
         IN  CASE fp.read = "ok" ->
                    RunContent(options, filename, diagram_type, output_format,
                               fp.text, {rel_filename})
               [] fp.read = "OSError" ->
                    Returned(Warning("file not found or reading it failed"),
                             filename, diagram_type, output_format, source0, {})
               [] OTHER ->
                    Returned([kind |-> "raise", message |-> fp.read, node |-> None],
                             filename, diagram_type, output_format, source0, {})

\* lines 103-113: rule 3, the external file
RunFile(options, filename0, diagram_type, output_format, source0) ==
    IF filename0 = None
    THEN RunContent(options, filename0, diagram_type, output_format, source0, {})
    ELSE LET argument == search_image_for_language(filename0)
             rel_filename == relfn2path(argument)[1]
             filename == relfn2path(argument)[2]
             noted == {rel_filename}
             fp == ReadSource(filename)
         IN  CASE fp.read = "ok" ->
                    RunContent(options, filename, diagram_type, output_format,
                               fp.text, noted)
               [] fp.read = "OSError" ->
                    Returned(Warning("file not found or reading it failed"),
                             filename, diagram_type, output_format, source0, noted)
               [] OTHER ->
                    Returned([kind |-> "raise", message |-> fp.read, node |-> None],
                             filename, diagram_type, output_format, source0, noted)

\* Kroki.run for the converted options of a directive
run(arguments, options, content) ==
    LET source == Join(content)
        acc == ClassifyArguments(arguments,
                   [filename |-> None, diagram_type |-> None, output_format |-> None])
    IN  IF "filename" \in DOMAIN options /\ acc.filename # None
        THEN Returned(Warning("both filename option and a filename argument"),
                      acc.filename, acc.diagram_type, acc.output_format, source, {})
        ELSE LET filename == IF "filename" \in DOMAIN options
                             THEN options["filename"] ELSE acc.filename
             IN  IF Strip(source) # <<>> /\ filename # None
                 THEN Returned(Warning("both content and a filename argument"),
                               filename, acc.diagram_type, acc.output_format,
                               source, {})
                 ELSE RunFile(options, filename, acc.diagram_type,
                              acc.output_format, source)

\* option_spec: the conversion the host applies to each option before run
option_spec(key, value) ==
    CASE key = "type" -> type_spec(value)
      [] key = "format" -> format_spec(value)
      [] OTHER -> [ok |-> TRUE, value |-> value]

\* the options run sees
ConvertedOptions(raw) == [key \in DOMAIN raw |-> option_spec(key, raw[key]).value]

OptionsValid(raw) == \A key \in DOMAIN raw : option_spec(key, raw[key]).ok

(***************************************************************************)
(* render_kroki and render_html: pure parts                                *)
(***************************************************************************)
prefix == <<"kroki">>

imagedir == <<"_images">>

outdir == <<"/", "out">>

\* str(payload): the repr of the dict, which shows every key and value
PayloadStr(payload) ==
    <<"diagram_source", payload.diagram_source,
      "diagram_type", payload.diagram_type,
      "output_format", payload.output_format>>

\* sha1(hashkey).hexdigest(), with the digest taken to be free of collisions
sha1(hashkey) == <<"sha1", hashkey>>

\* lines 168-172
Payload(diagram_type, diagram_source, output_format) ==
    [diagram_source |-> diagram_source, diagram_type |-> diagram_type,
     output_format |-> output_format]

\* line 174: str(kroki_url) + str(payload)
HashKey(kroki_url, payload) == <<kroki_url, PayloadStr(payload)>>

\* a variant of Fname whose digest also covers the number of calls so far
FnameSalted(kroki_url, payload, pfx) ==
    <<pfx, "-", sha1(<<HashKey(kroki_url, payload), ncalls>>), ".",
      payload.output_format>>

\* a variant of Fname whose digest covers the payload but not the service URL
FnameOfPayload(kroki_url, payload, pfx) ==
    <<pfx, "-", sha1(PayloadStr(payload)), ".", payload.output_format>>

\* line 175: '%s-%s.%s' % (prefix, digest, output_format)
Fname(kroki_url, payload, pfx) ==
    <<pfx, "-", sha1(HashKey(kroki_url, payload)), ".", payload.output_format>>

\* line 176: posixpath.join(builder.imgpath, fname)
Relfn(imgpath, fname) == <<imgpath, "/", fname>>

\* line 177: path.join(builder.outdir, builder.imagedir, fname)
Outfn(fname) == <<outdir, "/", imagedir, "/", fname>>

\* a variant of IsFile that never finds the artifact
IsFileNever(outfn, fs) == FALSE

\* line 179: path.isfile(outfn) on the cache directory fs
IsFile(outfn, fs) == outfn \in DOMAIN fs

\* Response.raise_for_status(): an HTTPError for a 4xx or 5xx status
RaiseForStatus(status) == 400 <= status /\ status < 600

\* lines 192-195: the KrokiError a caught exception is turned into
KrokiError(exc, outfn) ==
    IF exc \in {"ConnectionError", "HTTPError"}
    THEN <<"kroki did not produce a diagram">>
    ELSE <<"Unable to write diagram to file", outfn>>

\* HTMLTranslator.encode(text): the HTML special characters escaped
encode(text) ==
    [i \in 1..Len(text) |->
        CASE text[i] = "&" -> "&amp;"
          [] text[i] = "<" -> "&lt;"
          [] text[i] = ">" -> "&gt;"
          [] OTHER -> text[i]]

\* a variant of NodeFormat with the default format fixed instead of configured
NodeFormatFixedDefault(node, conf) ==
    IF "format" \in DOMAIN node THEN node.format ELSE <<"svg">>

\* line 200: node.get('format', self.builder.config.kroki_output_format)
NodeFormat(node, conf) ==
    IF "format" \in DOMAIN node THEN node.format ELSE conf.kroki_output_format

\* line 205: the warning render_html logs for a KrokiError
LogWarning(diagram_type, output_format, diagram_source, exc) ==
    [diagram_type |-> diagram_type, output_format |-> output_format,
     diagram_source |-> diagram_source, exc |-> exc]

\* line 224: the alternate text of the image
AltText(options, diagram_source) ==
    Strip(encode(IF "caption" \in DOMAIN options THEN options.caption
                 ELSE diagram_source))

\* a variant of Emitted that inlines the artifact whatever its format
EmittedInlineAnyFormat(c, conf, artifact) ==
    <<[tag |-> "div", class |-> <<"kroki", <<"kroki-", c.diagram_type>>>>]>>
    \o (IF conf.kroki_inline_svg
        THEN <<[tag |-> "inline", text |-> artifact]>>
        ELSE <<[tag |-> "a", href |-> c.relfn, src |-> c.relfn,
                alt |-> AltText(c.options, c.diagram_source)]>>)
    \o <<[tag |-> "/div"]>>

\* lines 208-228: what render_html appends to the body on success, for the
\* locals c of the call (fname is c.relfn) and the content of the artifact.
\* (classes holds kroki_class, which is None, and the node has no 'classes'
\* or 'align'.)
Emitted(c, conf, artifact) ==
    IF c.relfn = None
    THEN <<[tag |-> "text", text |-> encode(c.diagram_source)]>>
    ELSE <<[tag |-> "div", class |-> <<"kroki", <<"kroki-", c.diagram_type>>>>]>>
         \o (IF c.output_format = <<"svg">> /\ conf.kroki_inline_svg
             THEN <<[tag |-> "inline", text |-> artifact]>>
             ELSE <<[tag |-> "a", href |-> c.relfn, src |-> c.relfn,
                     alt |-> AltText(c.options, c.diagram_source)]>>)
         \o <<[tag |-> "/div"]>>

\* a variant of Caught without the IOError handler
CaughtRequestOnly(exc) == exc \in {"ConnectionError", "HTTPError"}

\* lines 192-195: the exceptions render_kroki turns into a KrokiError
\* (RequestException and its subclasses, IOError)
Caught(exc) == exc \in {"ConnectionError", "HTTPError", "OSError"}

(***************************************************************************)
(* Bounds and input samples                                                *)
(***************************************************************************)
\* render_kroki calls in one behaviour
MaxCalls == 2

\* chunks in one response body
MaxChunks == 1

Builds == {"build1", "build2"}

\* the defaults setup() registers
DefaultConfig ==
    [kroki_url |-> <<"https://kroki.io">>, kroki_output_format |-> <<"svg">>,
     kroki_inline_svg |-> FALSE]

\* conf.py values
Configs ==
    {DefaultConfig,
     [kroki_url |-> <<"https://kroki.io">>, kroki_output_format |-> <<"svg">>,
      kroki_inline_svg |-> TRUE],
     [kroki_url |-> <<"http://localhost:8000">>, kroki_output_format |-> <<"pdf">>,
      kroki_inline_svg |-> FALSE]}

\* builder.imgpath, which the HTML builder sets for each document
ImgPaths == {<<"_images">>, <<"..", "/", "_images">>}

Statuses == {200, 304, 500}

SeqsUpTo(S, n) == UNION {[1..k -> S] : k \in 0..n}

\* every assignment of values to a subset of the option keys
OptionSets(filenames, typeopts, formatopts, captions) ==
    {f @@ t @@ o @@ c :
        f \in {<<>>} \cup {[filename |-> v] : v \in filenames},
        t \in {<<>>} \cup {[type |-> v] : v \in typeopts},
        o \in {<<>>} \cup {[format |-> v] : v \in formatopts},
        c \in {<<>>} \cup {[caption |-> v] : v \in captions}}

DirectiveSet(argseqs, optsets, contents) ==
    {[arguments |-> a, options |-> o, content |-> c] :
        a \in argseqs, o \in optsets, c \in contents}

Caption == <<"Fig", "&">>

\* the directives the parser is checked on
ArgTokens ==
    {<<"mermaid">>, <<"plantuml">>, <<"svg">>, <<"png">>,
     <<"a", ".", "puml">>, <<"b", ".", "xyz">>, <<"blank", ".", "dot">>,
     <<"latin1", ".", "bob">>}

Directives ==
    DirectiveSet(SeqsUpTo(ArgTokens, optional_arguments),
                 OptionSets({<<"a", ".", "puml">>, <<"gone", ".", "gv">>},
                            {<<"graphviz">>, <<" ", "Mermaid">>, <<"bogus">>},
                            {<<"png">>, <<"pdf">>},
                            {Caption}),
                 {<<>>, << <<" ">> >>, << <<"a", "<", "b">>, <<"c">> >>})

\* the directives the render pipeline is checked on
PipelineDirectives ==
    DirectiveSet({<<>>, << <<"mermaid">> >>, << <<"a", ".", "puml">> >>},
                 OptionSets({}, {<<"mermaid">>}, {<<"png">>}, {Caption}),
                 {<<>>, << <<"a", "<", "b">> >>})

(***************************************************************************)
(* Initial state                                                           *)
(***************************************************************************)
NoDirective == [arguments |-> <<>>, options |-> <<>>, content |-> <<>>]

NotRun == Returned([kind |-> "none", message |-> None, node |-> None],
                   None, None, None, None, {})

NoCall ==
    [id |-> 0, diagram_type |-> None, diagram_source |-> None,
     options |-> <<>>, output_format |-> None, url |-> None, payload |-> None,
     fname |-> None, imgpath |-> None, relfn |-> None, outfn |-> None,
     isfile |-> FALSE, status |-> 0,
     pending |-> <<>>, written |-> 0]

InitOf(builds) ==
    /\ active = builds
    /\ pc = [b \in Builds |-> "idle"]
    /\ config \in [Builds -> Configs]
    /\ \A b \in Builds \ builds : config[b] = CHOOSE c \in Configs : TRUE
    /\ directive = [b \in Builds |-> NoDirective]
    /\ ran = [b \in Builds |-> NotRun]
    /\ call = [b \in Builds |-> NoCall]
    /\ body = [b \in Builds |-> <<>>]
    /\ log = [b \in Builds |-> <<>>]
    /\ outcome = [b \in Builds |-> None]
    /\ http = [b \in Builds |-> <<>>]
    /\ files = <<>>
    /\ served = {}
    /\ failed = {}
    /\ made = FALSE
    /\ ncalls = 0

\* one build, as the host runs the extension
Init == InitOf({"build1"})

(***************************************************************************)
(* Actions                                                                 *)
(***************************************************************************)
\* The host meets a kroki directive: it converts the options (a value that
\* option_spec refuses is reported by the host and run is not called) and
\* calls Kroki.run.  Only a kroki node (alone or in a figure) is visited.
Directive(b, d) ==
    /\ pc[b] = "idle"
    /\ directive' = [directive EXCEPT ![b] = d]
    /\ ran' = [ran EXCEPT ![b] =
            IF OptionsValid(d.options)
            THEN run(d.arguments, ConvertedOptions(d.options), d.content)
            ELSE Returned([kind |-> "option_error", message |-> None,
                           node |-> None], None, None, None, None, {})]
    /\ pc' = [pc EXCEPT ![b] =
            IF ran'[b].ret.kind \in {"kroki", "figure"} THEN "parsed" ELSE "done"]
    /\ UNCHANGED <<active, config, call, body, log, outcome, http, files, served,
                   failed, made,
                   ncalls>>

\* html_visit_kroki -> render_html -> render_kroki, up to the path.isfile
\* test (lines 233-234, 200-203, 167-180); imgpath is builder.imgpath
Visit(b, imgpath) ==
    /\ pc[b] = "parsed"
    /\ ran[b].ret.kind \in {"kroki", "figure"}
    /\ ncalls < MaxCalls
    /\ LET node == ran[b].ret.node
           output_format == NodeFormat(node, config[b])
           kroki_url == config[b].kroki_url
           payload == Payload(node.type, node.code, output_format)
           fname == Fname(kroki_url, payload, prefix)
           outfn == Outfn(fname)
           isfile == IsFile(outfn, files)
       IN  /\ call' = [call EXCEPT ![b] =
                  [id |-> ncalls + 1, diagram_type |-> node.type,
                   diagram_source |-> node.code, options |-> node.options,
                   output_format |-> output_format, url |-> kroki_url,
                   payload |-> payload, fname |-> fname,
                   imgpath |-> imgpath, relfn |-> Relfn(imgpath, fname),
                   outfn |-> outfn,
                   isfile |-> isfile, status |-> 0, pending |-> <<>>,
                   written |-> 0]]
           /\ pc' = [pc EXCEPT ![b] = IF isfile THEN "embed" ELSE "fetch"]
    /\ ncalls' = ncalls + 1
    /\ UNCHANGED <<active, config, directive, ran, body, log, outcome, http, files,
                   served, failed, made>>

\* the request a POST puts on the wire
Request(b) == [url |-> call[b].url, json |-> call[b].payload]

\* an exception raised inside render_kroki's try block: a caught one becomes
\* a KrokiError, which render_html logs before it skips the node (lines
\* 192-195, 204-206); any other escapes
Raise(b, exc) ==
    /\ pc' = [pc EXCEPT ![b] = "done"]
    /\ IF Caught(exc)
       THEN /\ log' = [log EXCEPT ![b] = Append(@,
                    LogWarning(call[b].diagram_type, call[b].output_format,
                               call[b].diagram_source,
                               KrokiError(exc, call[b].outfn)))]
            /\ outcome' = [outcome EXCEPT ![b] = "SkipNode"]
       ELSE /\ log' = log
            /\ outcome' = [outcome EXCEPT ![b] = exc]
    /\ failed' = IF exc \in {"ConnectionError", "HTTPError"}
                 THEN failed \cup {Request(b)} ELSE failed
    /\ UNCHANGED <<active, config, directive, ran, body>>

\* a variant of Fetch that opens the artifact file before the status check
FetchOpensFirst(b) ==
    /\ pc[b] = "fetch"
    /\ \/ /\ ~made
          /\ Raise(b, "OSError")
          /\ UNCHANGED <<call, http, files, served, made, ncalls>>
       \/ /\ http' = [http EXCEPT ![b] = Append(@, Request(b))]
          /\ Raise(b, "ConnectionError")
          /\ made' = TRUE
          /\ UNCHANGED <<call, files, served, ncalls>>
       \/ \E status \in Statuses, n \in 0..MaxChunks :
            /\ http' = [http EXCEPT ![b] = Append(@, Request(b))]
            /\ IF RaiseForStatus(status)
               THEN /\ Raise(b, "HTTPError")
                    /\ call' = [call EXCEPT ![b].status = status]
                    /\ files' = (call[b].outfn :> [data |-> <<>>,
                                     writer |-> call[b].id, left |-> 0,
                                     request |-> Request(b)]) @@ files
               ELSE /\ call' = [call EXCEPT ![b].status = status,
                                            ![b].pending = [i \in 1..n |-> i]]
                    /\ pc' = [pc EXCEPT ![b] = "open"]
                    /\ files' = files
                    /\ UNCHANGED <<active, config, directive, ran, body, log,
                                   outcome, failed>>
            /\ made' = TRUE
            /\ UNCHANGED <<served, ncalls>>

\* lines 183-186 on a cache miss: ensuredir (which can only fail while the
\* directory does not exist), the POST, raise_for_status;
\* call[b].status is the status of the response (0 while there is none)
Fetch(b) ==
    /\ pc[b] = "fetch"
    /\ \/ /\ ~made                                 \* ensuredir fails
          /\ Raise(b, "OSError")
          /\ UNCHANGED <<call, http, files, served, made, ncalls>>
       \/ /\ http' = [http EXCEPT ![b] = Append(@, Request(b))]  \* no response
          /\ Raise(b, "ConnectionError")
          /\ made' = TRUE
          /\ UNCHANGED <<call, files, served, ncalls>>
       \/ \E status \in Statuses, n \in 0..MaxChunks :
            /\ http' = [http EXCEPT ![b] = Append(@, Request(b))]
            /\ IF RaiseForStatus(status)
               THEN /\ Raise(b, "HTTPError")
                    /\ call' = [call EXCEPT ![b].status = status]
               ELSE /\ call' = [call EXCEPT ![b].status = status,
                                            ![b].pending = [i \in 1..n |-> i]]
                    /\ pc' = [pc EXCEPT ![b] = "open"]
                    /\ UNCHANGED <<active, config, directive, ran, body, log,
                                   outcome, failed>>
            /\ made' = TRUE
            /\ UNCHANGED <<files, served, ncalls>>

\* a variant of Open that keeps the data of a file that exists
OpenKeepsData(b) ==
    /\ pc[b] = "open"
    /\ \/ /\ Raise(b, "OSError")
          /\ UNCHANGED <<call, http, files, served, made, ncalls>>
       \/ /\ files' = (call[b].outfn :>
                         [data |-> IF call[b].outfn \in DOMAIN files
                                   THEN files[call[b].outfn].data ELSE <<>>,
                          writer |-> call[b].id,
                          left |-> Len(call[b].pending),
                          request |-> Request(b)])
                      @@ files
          /\ pc' = [pc EXCEPT ![b] = IF call[b].pending = <<>> THEN "embed"
                                     ELSE "stream"]
          /\ UNCHANGED <<active, config, directive, ran, call, body, log,
                         outcome, http, served, failed, made, ncalls>>

\* line 187: open(outfn, mode='wb') creates the file or truncates it; with
\* the data a file records the call that wrote to it last, how many chunks
\* of that call's response are left to write, and the request it answers
Open(b) ==
    /\ pc[b] = "open"
    /\ \/ /\ Raise(b, "OSError")
          /\ UNCHANGED <<call, http, files, served, made, ncalls>>
       \/ /\ files' = (call[b].outfn :> [data |-> <<>>, writer |-> call[b].id,
                                           left |-> Len(call[b].pending),
                                           request |-> Request(b)])
                      @@ files
          /\ pc' = [pc EXCEPT ![b] = IF call[b].pending = <<>> THEN "embed"
                                     ELSE "stream"]
          /\ UNCHANGED <<active, config, directive, ran, call, body, log,
                         outcome, http, served, failed, made, ncalls>>

\* f.write(chunk) at the position of the file object, which is the number of
\* chunks the call has written; a gap before it reads as zeros
WriteAt(data, position, chunk) ==
    [i \in 1..(IF Len(data) > position THEN Len(data) ELSE position + 1) |->
        IF i = position + 1 THEN chunk
        ELSE IF i <= Len(data) THEN data[i] ELSE 0]

\* lines 188-191: one f.write(chunk); after the last one render_kroki returns
Write(b) ==
    /\ pc[b] = "stream"
    /\ \/ /\ Raise(b, "OSError")
          /\ UNCHANGED <<call, http, files, served, made, ncalls>>
       \/ /\ files' = [files EXCEPT ![call[b].outfn].data =
                           WriteAt(@, call[b].written, Head(call[b].pending)),
                                    ![call[b].outfn].writer = call[b].id,
                                    ![call[b].outfn].left = Len(call[b].pending) - 1]
          /\ call' = [call EXCEPT ![b].pending = Tail(@),
                                  ![b].written = @ + 1]
          /\ pc' = [pc EXCEPT ![b] = IF Tail(call[b].pending) = <<>> THEN "embed"
                                     ELSE "stream"]
          /\ UNCHANGED <<active, config, directive, ran, body, log, outcome,
                         http, served, failed, made, ncalls>>

\* lines 191 or 180, then 208-230: render_kroki returns (relfn, outfn) and
\* render_html appends the markup and skips the node
Embed(b) ==
    /\ pc[b] = "embed"
    /\ body' = [body EXCEPT ![b] = @ \o
            Emitted(call[b], config[b], files[call[b].outfn].data)]
    /\ outcome' = [outcome EXCEPT ![b] = "SkipNode"]
    /\ pc' = [pc EXCEPT ![b] = "done"]
    /\ served' = served \cup {Request(b)}
    /\ UNCHANGED <<active, config, directive, ran, call, log, http, files, failed,
                   made, ncalls>>

\* The directive is dealt with (run returned no kroki node, or the visit
\* ended): the host goes on to the next directive with fresh locals.
Leave(b) ==
    /\ pc[b] = "done"
    /\ pc' = [pc EXCEPT ![b] = "idle"]
    /\ directive' = [directive EXCEPT ![b] = NoDirective]
    /\ ran' = [ran EXCEPT ![b] = NotRun]
    /\ call' = [call EXCEPT ![b] = NoCall]
    /\ body' = [body EXCEPT ![b] = <<>>]
    /\ log' = [log EXCEPT ![b] = <<>>]
    /\ http' = [http EXCEPT ![b] = <<>>]
    /\ outcome' = [outcome EXCEPT ![b] = None]
    /\ UNCHANGED <<active, config, files, served, failed, made, ncalls>>

Next ==
    \/ \E b \in active, d \in PipelineDirectives :
            ncalls < MaxCalls /\ Directive(b, d)
    \/ \E b \in active, imgpath \in ImgPaths : Visit(b, imgpath)
    \/ \E b \in active : Fetch(b)
    \/ \E b \in active : Open(b)
    \/ \E b \in active : Write(b)
    \/ \E b \in active : Embed(b)
    \/ \E b \in active : Leave(b)

Spec == Init /\ [][Next]_vars

\* Kroki.run alone, on every directive of the sample
NextDirective ==
    \E b \in active :
        /\ pc[b] = "idle"
        /\ \E d \in Directives : Directive(b, d)

InitDirective == Init /\ config["build1"] = DefaultConfig

SpecDirective == InitDirective /\ [][NextDirective]_vars

\* Two builds that share the cache directory, the first with the default
\* configuration and the second with any, on one directive, so that the
\* builds ask for the same artifact when their service URL is the same.
ConcDirectives ==
    DirectiveSet({<< <<"mermaid">> >>}, {[format |-> <<"png">>]},
                 {<< <<"a", "<", "b">> >>})

InitConc == InitOf(Builds) /\ config["build1"] = DefaultConfig

NextConc ==
    \/ \E b \in active, d \in ConcDirectives :
            ncalls < MaxCalls /\ Directive(b, d)
    \/ \E b \in active, imgpath \in ImgPaths : Visit(b, imgpath)
    \/ \E b \in active : Fetch(b)
    \/ \E b \in active : Open(b)
    \/ \E b \in active : Write(b)
    \/ \E b \in active : Embed(b)
    \/ \E b \in active : Leave(b)

SpecConc == InitConc /\ [][NextConc]_vars

(***************************************************************************)
(* Properties                                                              *)
(***************************************************************************)
\* the directive's arguments of each kind, by position
FilenameArgs(d) ==
    {i \in DOMAIN d.arguments : d.arguments[i] \notin types \cup formats}

TypeArgs(d) == {i \in DOMAIN d.arguments : d.arguments[i] \in types}

FormatArgs(d) == {i \in DOMAIN d.arguments : d.arguments[i] \in formats}

LastOf(d, positions) == d.arguments[CHOOSE i \in positions : \A j \in positions : j <= i]

NonBlank(text) == Strip(text) # <<>>

\* the request of the call build b is in, in the state after a step
RequestAfter(b) == [url |-> call[b].url, json |-> call[b].payload]'

\* C1: In a cache directory that only render_kroki calls touch, a call whose
\* artifact file exists, or whose request an earlier call already returned
\* paths for, goes straight to returning its paths, and a POST is only ever
\* issued by a call that found no artifact and whose request no earlier call
\* was served.
C1_CachedCallIssuesNoPost ==
    [][\A b \in active :
         /\ (pc[b] = "parsed" /\ pc'[b] # "parsed"
             /\ (call'[b].outfn \in DOMAIN files \/ RequestAfter(b) \in served)
               => /\ pc'[b] = "embed"
                  /\ call'[b].isfile
                  /\ http'[b] = <<>>)
         /\ (http'[b] # http[b] /\ http'[b] # <<>>
               => /\ call[b].outfn \notin DOMAIN files
                  /\ Request(b) \notin served)
         /\ (pc[b] = "embed" /\ call[b].isfile => http[b] = <<>> /\ http'[b] = <<>>)
      ]_vars

\* a second call for a request already served ended without any POST
C1_Witness ==
    \E b \in active :
        /\ pc[b] = "done"
        /\ call[b].isfile
        /\ call[b].id = 2
        /\ http[b] = <<>>
        /\ Request(b) \in served
        /\ body[b] # <<>>

\* C4: When the render step ends in a render-level error (the directory
\* cannot be made, no response, an error status, the file cannot be opened or
\* written), render_html logs exactly one warning naming the diagram type,
\* the format and the source, appends nothing to the body and ends with
\* SkipNode; no other exception leaves it.
C4_RenderFailureLogsAndSkips ==
    [][\A b \in active :
         pc[b] \in {"fetch", "open", "stream"} /\ pc'[b] = "done"
           => /\ Len(log'[b]) = 1
              /\ log'[b][1].diagram_type = ran[b].ret.node.type
              /\ log'[b][1].diagram_source = ran[b].ret.node.code
              /\ log'[b][1].output_format = call[b].output_format
              /\ body'[b] = <<>>
              /\ outcome'[b] = "SkipNode"
      ]_vars

\* a POST was issued and the service did not produce a diagram
C4_Witness ==
    \E b \in active :
        /\ pc[b] = "done"
        /\ Len(http[b]) = 1
        /\ Len(log[b]) = 1
        /\ log[b][1].exc = <<"kroki did not produce a diagram">>
        /\ body[b] = <<>>
        /\ outcome[b] = "SkipNode"

\* the case of C5: non-blank content, one explicit type (argument or option),
\* no format and no filename
C5Case(d) ==
    /\ OptionsValid(d.options)
    /\ NonBlank(Join(d.content))
    /\ FilenameArgs(d) = {} /\ "filename" \notin DOMAIN d.options
    /\ FormatArgs(d) = {} /\ "format" \notin DOMAIN d.options
    /\ (TypeArgs(d) = {}) # ("type" \notin DOMAIN d.options)

C5Type(d) ==
    IF TypeArgs(d) # {} THEN LastOf(d, TypeArgs(d))
    ELSE Strip(Lower(d.options.type))

\* C5: A directive with non-blank content, an explicit type and no format is
\* rendered, and when its artifact is not in the cache it issues at most one
\* POST, every POST going to the configured URL with the payload
\* {the content, the type, the configured default format}; when the render
\* does not fail there is exactly one POST, the artifact file is in the image
\* directory, and the body holds a link-wrapped image of the relative path,
\* or, only in inline mode, the inline text.
C5_EndToEnd ==
    \A b \in active :
        LET d == directive[b]
            expected == [url |-> config[b].kroki_url,
                         json |-> [diagram_source |-> Join(d.content),
                                   diagram_type |-> C5Type(d),
                                   output_format |-> config[b].kroki_output_format]]
        IN  pc[b] = "done" /\ C5Case(d)
              => /\ call[b].id # 0
                 /\ ~call[b].isfile
                      => /\ Len(http[b]) <= 1
                         /\ \A i \in DOMAIN http[b] : http[b][i] = expected
                         /\ log[b] = <<>>
                              => /\ http[b] = <<expected>>
                                 /\ call[b].outfn \in DOMAIN files
                                 /\ SubSeq(call[b].outfn, 1, 4)
                                      = <<outdir, "/", imagedir, "/">>
                                 /\ Len(body[b]) = 3
                                 /\ \/ /\ body[b][2].tag = "a"
                                       /\ body[b][2].href = call[b].relfn
                                       /\ body[b][2].src = call[b].relfn
                                    \/ /\ body[b][2].tag = "inline"
                                       /\ config[b].kroki_inline_svg

\* the first call of a build, for such a directive, rendered and embedded
C5_Witness ==
    \E b \in active :
        /\ pc[b] = "done"
        /\ C5Case(directive[b])
        /\ call[b].id = 1
        /\ Len(http[b]) = 1
        /\ log[b] = <<>>
        /\ Len(body[b]) = 3
        /\ body[b][2].tag = "a"

\* C7: Every render request that reaches render_kroki has its diagram type
\* among the supported types and its output format among the supported
\* formats.
C7_RequestInEnumeratedSets ==
    \A b \in active :
        call[b].id # 0
          => /\ call[b].diagram_type \in types
             /\ call[b].output_format \in formats

\* C8: An artifact file is created only by a call that found it missing, and
\* once it exists only that same call changes it, by appending the chunks of
\* its response; no other call writes to it, truncates it or replaces it.
C8_EntryNeverMutated ==
    [][\A f \in DOMAIN files' :
         IF f \in DOMAIN files
         THEN files'[f] # files[f]
                => \E b \in active :
                     /\ pc[b] = "stream"
                     /\ call[b].outfn = f
                     /\ ~call[b].isfile
                     /\ files[f].writer = call[b].id
                     /\ files'[f].writer = call[b].id
                     /\ files'[f].data = Append(files[f].data, Head(call[b].pending))
         ELSE \E b \in active :
                /\ pc[b] = "open"
                /\ call[b].outfn = f
                /\ ~call[b].isfile
      ]_vars

\* a later call found the artifact an earlier call had written, and left it
C8_Witness ==
    \E b \in active :
        /\ pc[b] = "done"
        /\ call[b].isfile
        /\ files[call[b].outfn].writer # call[b].id
        /\ files[call[b].outfn].data # <<>>

\* C9: On a successful render embedded as an image link, the alternate text
\* is the (HTML-escaped) caption when the directive has a caption option, and
\* the (HTML-escaped) diagram source otherwise.
C9_AltTextIsCaption ==
    \A b \in active :
        pc[b] = "done" /\ Len(body[b]) = 3 /\ body[b][2].tag = "a"
          => body[b][2].alt =
                Strip(encode(IF "caption" \in DOMAIN directive[b].options
                             THEN directive[b].options.caption
                             ELSE ran[b].ret.node.code))

\* C10: On a successful render the body holds the artifact's content as
\* inline markup exactly when the format is svg and the inline flag is set,
\* and otherwise a link-wrapped image whose href and src are the relative
\* path.
C10_InlineIffSvgAndFlag ==
    \A b \in active :
        pc[b] = "done" /\ log[b] = <<>> /\ call[b].id # 0
          => /\ Len(body[b]) = 3
             /\ IF call[b].output_format = <<"svg">> /\ config[b].kroki_inline_svg
                THEN /\ body[b][2].tag = "inline"
                     /\ body[b][2].text = files[call[b].outfn].data
                ELSE /\ body[b][2].tag = "a"
                     /\ body[b][2].href = call[b].relfn
                     /\ body[b][2].src = call[b].relfn

\* an artifact with content was embedded inline
C10_Witness ==
    \E b \in active :
        /\ pc[b] = "done"
        /\ Len(body[b]) = 3
        /\ body[b][2].tag = "inline"
        /\ body[b][2].text # <<>>

\* the four conflicts between a positional argument and an option or the content
Conflicts(d) ==
    \/ "filename" \in DOMAIN d.options /\ FilenameArgs(d) # {}
    \/ NonBlank(Join(d.content)) /\ FilenameArgs(d) # {}
    \/ "type" \in DOMAIN d.options /\ TypeArgs(d) # {}
    \/ "format" \in DOMAIN d.options /\ FormatArgs(d) # {}

\* C2: For every directive run is called on, if a filename option comes with
\* a filename argument, non-blank content with a filename argument, a type
\* option with a type argument, or a format option with a format argument,
\* then run returns a warning node and no kroki node, and does not raise.
C2_ConflictsGiveWarning ==
    \A b \in active :
        pc[b] # "idle" /\ OptionsValid(directive[b].options)
        /\ Conflicts(directive[b])
          => ran[b].ret.kind = "warning"

\* the filename a directive resolves: the filename option, else the last
\* filename argument, else None
GivenFilename(d) ==
    IF "filename" \in DOMAIN d.options THEN d.options.filename
    ELSE IF FilenameArgs(d) # {} THEN LastOf(d, FilenameArgs(d))
    ELSE None

\* what reading the resolved filename gives
GivenFile(d) == ReadSource(relfn2path(search_image_for_language(GivenFilename(d)))[2])

\* run gets as far as reading the file, and reads it
ReadsFile(d) ==
    /\ OptionsValid(d.options)
    /\ ~("filename" \in DOMAIN d.options /\ FilenameArgs(d) # {})
    /\ GivenFilename(d) # None
    /\ ~NonBlank(Join(d.content))
    /\ GivenFile(d).read = "ok"

\* the types a directive gives explicitly
GivenTypes(d) ==
    {d.arguments[i] : i \in TypeArgs(d)}
    \cup (IF "type" \in DOMAIN d.options THEN {Strip(Lower(d.options.type))} ELSE {})

\* what C3 says of a directive that reads its file, with or without an
\* explicit type
ExtensionDecidesType(d, r) ==
    LET mapped == extension_type_map(SplitextExt(GivenFilename(d)))
    IN  IF GivenTypes(d) = {}
        THEN IF mapped # None
             THEN r.diagram_type = mapped
             ELSE r.ret = Warning("has to define diagram type")
        ELSE /\ r.diagram_type \in GivenTypes(d) \cup {None}
             /\ r.ret.kind \in {"kroki", "figure"}
                  => r.ret.node.type \in GivenTypes(d)

\* C3 as stated: whenever a readable filename is resolved, without an explicit
\* type the extension mapping sets the type, or the result is the 'diagram
\* type required' warning when the extension has no entry; an explicit type
\* takes precedence.
C3_ExtensionInfersType ==
    \A b \in active :
        pc[b] # "idle" /\ ReadsFile(directive[b])
          => ExtensionDecidesType(directive[b], ran[b])

\* C3, amended: the same, for a readable file whose content is not blank.
C3_ExtensionInfersTypeOfNonBlankFile ==
    \A b \in active :
        pc[b] # "idle" /\ ReadsFile(directive[b])
        /\ NonBlank(GivenFile(directive[b]).text)
          => ExtensionDecidesType(directive[b], ran[b])

\* a .puml file read with no explicit type gave a plantuml node
C3_Witness ==
    \E b \in active :
        /\ pc[b] # "idle"
        /\ ReadsFile(directive[b])
        /\ GivenTypes(directive[b]) = {}
        /\ SplitextExt(GivenFilename(directive[b])) = <<".", "puml">>
        /\ ran[b].ret.kind = "kroki"
        /\ ran[b].ret.node.type = <<"plantuml">>

\* two calls, in any builds, for the same service URL, source, type and format
SameRequest(b1, b2) ==
    /\ call[b1].id # 0 /\ call[b2].id # 0
    /\ call[b1].url = call[b2].url
    /\ call[b1].payload = call[b2].payload

ResolvedText(d) ==
    IF GivenFilename(d) # None /\ GivenFile(d).read = "ok" THEN GivenFile(d).text
    ELSE Join(d.content)

\* the seven rules of the directive parser, each as a condition on the
\* directive alone: RuleFails(d, k) says that rule k is violated
RuleFails(d, k) ==
    CASE k = 1 -> "filename" \in DOMAIN d.options /\ FilenameArgs(d) # {}
      [] k = 2 -> NonBlank(Join(d.content)) /\ GivenFilename(d) # None
      [] k = 3 -> GivenFilename(d) # None /\ GivenFile(d).read # "ok"
      [] k = 4 -> ~NonBlank(ResolvedText(d))
      [] k = 5 -> "type" \in DOMAIN d.options /\ TypeArgs(d) # {}
      [] k = 6 -> /\ GivenTypes(d) = {}
                  /\ \/ GivenFilename(d) = None
                     \/ extension_type_map(SplitextExt(GivenFilename(d))) = None
      [] k = 7 -> "format" \in DOMAIN d.options /\ FormatArgs(d) # {}

FailedRules(d) == {k \in 1..7 : RuleFails(d, k)}

FirstFailedRule(d) == CHOOSE k \in FailedRules(d) : \A j \in FailedRules(d) : k <= j

\* the diagnostic of each rule
RuleWarning(k) ==
    CASE k = 1 -> Warning("both filename option and a filename argument")
      [] k = 2 -> Warning("both content and a filename argument")
      [] k = 3 -> Warning("file not found or reading it failed")
      [] k = 4 -> Warning("directive without content")
      [] k = 5 -> Warning("both type option and a type argument")
      [] k = 6 -> Warning("has to define diagram type")
      [] k = 7 -> Warning("both format option and a format argument")

\* C11: For every directive run is called on that violates at least one of
\* the seven rules, run returns the warning of the lowest-numbered rule the
\* directive violates.
C11_FirstFailedRuleReported ==
    \A b \in active :
        pc[b] # "idle" /\ OptionsValid(directive[b].options)
        /\ FailedRules(directive[b]) # {}
          => ran[b].ret = RuleWarning(FirstFailedRule(directive[b]))

\* C12: For every directive run is called on, run returns exactly one node:
\* a kroki node (inside a figure when a caption is given) if and only if no
\* rule is violated, and otherwise a warning node and no kroki node.
C12_OneNodePerDirective ==
    \A b \in active :
        pc[b] # "idle" /\ OptionsValid(directive[b].options)
          => IF FailedRules(directive[b]) = {}
             THEN /\ ran[b].ret.kind =
                        (IF "caption" \in DOMAIN directive[b].options
                         THEN "figure" ELSE "kroki")
                  /\ ran[b].ret.node # None
             ELSE /\ ran[b].ret.kind = "warning"
                  /\ ran[b].ret.node = None

\* the statuses the spec counts as success
Success(status) == 200 <= status /\ status < 300

\* C13: Each render_kroki call issues at most one POST: exactly one when the
\* artifact file is absent at the start of the call and none when it is
\* present; a response whose status is not 2xx, or no response at all, ends
\* the call with a KrokiError (which render_html logs) and no further POST.
C13_OnePostPerMiss ==
    \A b \in active :
        pc[b] = "done" /\ call[b].id # 0
          => /\ Len(http[b]) <= 1
             /\ call[b].isfile => http[b] = <<>>
             /\ ~call[b].isfile => Len(http[b]) = 1
             /\ http[b] # <<>> /\ ~Success(call[b].status)
                  => /\ Len(log[b]) = 1
                     /\ log[b][1].exc = <<"kroki did not produce a diagram">>
                     /\ outcome[b] = "SkipNode"
                     /\ body[b] = <<>>

\* C14: When a write fails while the response is streamed to the artifact
\* file, the call ends with the KrokiError for that file and the partially
\* written file stays as it is; no step removes a file; and a call that then
\* finds the file takes it for a cache hit and returns its paths without any
\* POST.
C14_PartialFileIsServed ==
    [][\A b \in active :
         /\ pc[b] = "stream" /\ pc'[b] = "done"
               => /\ files' = files
                  /\ call[b].outfn \in DOMAIN files
                  /\ files[call[b].outfn].left > 0
                  /\ log'[b] = <<LogWarning(call[b].diagram_type, call[b].output_format,
                                     call[b].diagram_source,
                                     <<"Unable to write diagram to file", call[b].outfn>>)>>
                  /\ outcome'[b] = "SkipNode"
         /\ DOMAIN files \subseteq DOMAIN files'
         /\ pc[b] = "parsed" /\ pc'[b] # "parsed" /\ call'[b].outfn \in DOMAIN files
               => /\ pc'[b] = "embed"
                  /\ call'[b].isfile
                  /\ http'[b] = <<>>
         /\ pc[b] = "embed" /\ call[b].isfile
               => /\ http'[b] = <<>>
                  /\ files' = files
                  /\ body'[b] = Emitted(call[b], config[b], files[call[b].outfn].data)
      ]_vars

\* a later call was served the file an earlier call had left partially written
C14_Witness ==
    \E b \in active :
        /\ pc[b] = "done"
        /\ call[b].isfile
        /\ files[call[b].outfn].writer # call[b].id
        /\ files[call[b].outfn].left > 0
        /\ http[b] = <<>>
        /\ Len(body[b]) = 3

DependencyOf(d) == relfn2path(search_image_for_language(GivenFilename(d)))[1]

\* C17: For every directive run is called on, the dependencies run has
\* noted when it ends are exactly the file of the resolved filename when a
\* filename is resolved and rules 1 and 2 pass, whether the read then
\* succeeds or fails, and none otherwise.
C17_DependencyNotedBeforeRead ==
    \A b \in active :
        pc[b] # "idle" /\ OptionsValid(directive[b].options)
          => ran[b].noted =
                IF /\ GivenFilename(directive[b]) # None
                   /\ ~RuleFails(directive[b], 1)
                   /\ ~RuleFails(directive[b], 2)
                THEN {DependencyOf(directive[b])}
                ELSE {}

\* the file was not found, and it is noted as a dependency
C17_Witness ==
    \E b \in active :
        /\ pc[b] # "idle"
        /\ ran[b].ret = Warning("file not found or reading it failed")
        /\ ran[b].noted = {<<"gone", ".", "gv">>}

\* C18: Builds that share the cache directory are not coordinated.  A call
\* decides hit or miss once, when it starts; a call that saw a miss posts,
\* and when it opens the artifact file the file is left empty and its own,
\* whatever another call has written to it, and it then writes its chunks
\* from the start of the file.
C18_NoCoordination ==
    [][\A b \in active :
         /\ http'[b] # http[b] /\ http'[b] # <<>>
               => ~call[b].isfile /\ http'[b] = <<Request(b)>>
         /\ pc[b] = "open" /\ pc'[b] # "open" /\ pc'[b] # "done"
               => /\ files'[call[b].outfn].data = <<>>
                  /\ files'[call[b].outfn].writer = call[b].id
         /\ pc[b] = "stream" /\ call'[b] # call[b] /\ call[b].written = 0
               => /\ call'[b].written = 1
                  /\ files'[call[b].outfn].data[1] = Head(call[b].pending)
      ]_vars

\* both builds saw a miss for the same key and posted; the first wrote its
\* response, and the second has just opened the file, which is empty again
C18_Witness ==
    \E b1, b2 \in active :
        /\ b1 # b2
        /\ call[b1].outfn = call[b2].outfn
        /\ ~call[b1].isfile /\ ~call[b2].isfile
        /\ http[b1] = <<Request(b1)>> /\ http[b2] = <<Request(b2)>>
        /\ pc[b1] = "embed" /\ call[b1].written > 0
        /\ pc[b2] = "stream"
        /\ files[call[b2].outfn].writer = call[b2].id
        /\ files[call[b2].outfn].data = <<>>

\* the kind of a positional argument
Kind(argument) ==
    IF argument \in types THEN "type"
    ELSE IF argument \in formats THEN "format" ELSE "filename"

\* the arguments without those that a later argument of the same kind follows
LastOfEachKind(arguments) ==
    LET keep == {i \in DOMAIN arguments :
                    \A j \in DOMAIN arguments :
                        j > i => Kind(arguments[j]) # Kind(arguments[i])}
        kept[i \in 0..Len(arguments)] ==
            IF i = 0 THEN <<>>
            ELSE IF i \in keep THEN Append(kept[i - 1], arguments[i])
                 ELSE kept[i - 1]
    IN  kept[Len(arguments)]

\* C19: No argument is both a type and a format; run takes for the type, the
\* format and the filename the last argument of each kind; and the arguments
\* that a later one of the same kind follows change nothing of what run
\* returns, so that they bring no diagnostic.
C19_LastArgumentOfAKindWins ==
    /\ types \cap formats = {}
    /\ \A b \in active :
          LET d == directive[b]
          IN  pc[b] # "idle" /\ OptionsValid(d.options)
                => /\ ran[b] = run(LastOfEachKind(d.arguments),
                                   ConvertedOptions(d.options), d.content)
                   /\ TypeArgs(d) # {} /\ "type" \notin DOMAIN d.options
                        => ran[b].diagram_type = LastOf(d, TypeArgs(d))
                   /\ FormatArgs(d) # {} /\ "format" \notin DOMAIN d.options
                        => ran[b].output_format = LastOf(d, FormatArgs(d))
                   /\ FilenameArgs(d) # {}
                        => ran[b].filename \in
                             {LastOf(d, FilenameArgs(d)),
                              relfn2path(search_image_for_language(
                                  LastOf(d, FilenameArgs(d))))[2]}

\* two types and two formats were given; the node has the last of each
C19_Witness ==
    \E b \in active :
        /\ pc[b] # "idle"
        /\ directive[b].arguments = << <<"svg">>, <<"mermaid">>, <<"plantuml">> >>
           \/ directive[b].arguments = << <<"mermaid">>, <<"svg">>, <<"png">> >>
        /\ ran[b].ret.kind = "kroki"
        /\ ran[b].ret.node.type = LastOf(directive[b], TypeArgs(directive[b]))
        /\ ran[b].ret.node.format = LastOf(directive[b], FormatArgs(directive[b]))

====
